---- MODULE Spec2Model ----
(***************************************************************************)
(* State-machine model of src/main.py: the YouTube playlist transcript     *)
(* downloader.  One run of main() is modelled: API initialisation,         *)
(* playlist resolution, the per-video loop (skip check, retrying fetch     *)
(* with exponential backoff and a last unconstrained-language fetch, write *)
(* of the transcript file, classification of the outcome into the run's    *)
(* statistics) and the final summary.                                      *)
(*                                                                         *)
(* Strings that the program inspects character by character (titles, file *)
(* names) are sequences of one-character strings.  Time is counted in      *)
(* ticks, TicksPerSecond ticks to the second; only sleeps let time pass.   *)
(* The output directory is written by this program alone (spec section 5). *)
(***************************************************************************)
EXTENDS Integers, Sequences, FiniteSets, TLC

\* ------------------------------------------------------------------ bounds
MaxVideos == 2
MaxRetries == 3
MaxTitleLen == 2
TicksPerSecond == 2

\* ------------------------------------------------------- program constants
\* main.py:303  "if time.time() - mod_time < 5"
FreshWindow == 5

\* Optional values: None is the empty sequence, Some(x) a one-element one.
None == <<>>
Some(x) == <<x>>

\* ------------------------------------------------------------------- state
VARIABLES
    pc,               \* position of main(): init, fetch_playlist, loop, english,
                      \* fallback, write, classify, done, aborted
    PLAYLIST_URL,     \* Config.PLAYLIST_URL, a sequence of URL pieces
    RETRY_ATTEMPTS,   \* Config.RETRY_ATTEMPTS
    RATE_LIMIT_DELAY, \* Config.RATE_LIMIT_DELAY, in ticks
    remote,           \* what the playlist service answers: Some(videos) or None (error)
    yt_api,           \* "unset", "api" or "none"
    videos,           \* playlist.videos once the playlist is resolved
    stats,            \* DownloadStats
    i,                \* loop index of main(), 1-based; 0 before the loop
    filename,         \* output_path of the video being processed
    attempt,          \* loop variable of fetch_transcript_with_retry
    transcript_data,  \* result of fetch_transcript_with_retry: None or Some(data)
    success,          \* value returned by process_video for the current video
    files,            \* output directory: path -> [mtime, content]
    clock,            \* time.time(), in ticks
    summary,          \* None until print_summary, then Some(stats printed)
    \* history of the run, read by the properties only
    calls,            \* fetch calls made for the current video: [lang, ok]
    sleeps,           \* backoff sleeps (seconds) made for the current video
    existed,          \* did the current video's file exist when process_video began
    pre,              \* the output directory when process_video began
    outcomes,         \* per processed video: [idx, what] what really happened
    fetches           \* number of fetch calls made in the whole run

vars == <<pc, PLAYLIST_URL, RETRY_ATTEMPTS, RATE_LIMIT_DELAY, remote, yt_api, videos,
          stats, i, filename, attempt, transcript_data, success, files, clock,
          summary, calls, sleeps, existed, pre, outcomes, fetches>>

\* ------------------------------------------------------------ sanitization
\* main.py:105  the character class [\\/*?:"<>|]
IllegalChars == {"\\", "/", "*", "?", ":", "\"", "<", ">", "|"}

\* A sanitizer whose character class lost the backslash.
RECURSIVE sanitize_filename_no_backslash(_)
sanitize_filename_no_backslash(title) ==
    IF title = <<>> THEN <<>>
    ELSE <<IF Head(title) \in (IllegalChars \ {"\\"}) THEN "_" ELSE Head(title)>>
         \o sanitize_filename_no_backslash(Tail(title))

\* main.py:94-105  re.sub(r'[\\/*?:"<>|]', "_", title): scan left to right,
\* every match becomes "_", every other character is copied.
RECURSIVE sanitize_filename(_)
sanitize_filename(title) ==
    IF title = <<>> THEN <<>>
    ELSE <<IF Head(title) \in IllegalChars THEN "_" ELSE Head(title)>>
         \o sanitize_filename(Tail(title))

\* main.py:226-229  f"[{video_id}] - {title}.txt" under the output folder
FilenamePrefix(video_id) == <<"[">> \o video_id \o <<"]", " ", "-", " ">>
FilenameSuffix == <<".", "t", "x", "t">>
MakeFilename(video) ==
    FilenamePrefix(video.video_id) \o sanitize_filename(video.title) \o FilenameSuffix

\* ----------------------------------------------------------- URL validation
\* URLs are sequences of pieces; a piece is a scheme, "www.", a host-and-path
\* prefix, or one character of what follows.
WordChars == {"P", "L", "x", "_", "-", "7"}
Schemes == {"http://", "https://"}
PlaylistPrefixes == {"youtube.com/playlist?list=", "youtu.be/"}

DropOptional(u, set) == IF u # <<>> /\ Head(u) \in set THEN Tail(u) ELSE u

\* A validator that accepts every string.
validate_accepts_all(url) == TRUE

\* main.py:88-91  re.match of
\*   (https?://)?(www\.)?(youtube\.com/playlist\?list=|youtu\.be/)[\w-]+
\* anchored at the start only: whatever follows the first id character is free.
validate_playlist_url(url) ==
    LET u1 == DropOptional(url, Schemes)
        u2 == DropOptional(u1, {"www."})
    IN  /\ Len(u2) >= 2
        /\ u2[1] \in PlaylistPrefixes
        /\ u2[2] \in WordChars

GoodUrls ==
    { <<"https://", "www.", "youtube.com/playlist?list=", "P", "L", "7">>,
      <<"youtu.be/", "x", "?">> }
BadUrls ==
    { <<>>,
      <<"https://", "www.", "youtube.com/watch?v=", "x">>,
      <<"ftp://", "youtube.com/playlist?list=", "P", "L">>,
      <<"https://", "youtu.be/">>,
      <<"www.", "https://", "youtu.be/", "x">>,
      <<"youtube.com/playlist?list=", "?", "x">> }

\* ------------------------------------------------------------- environment
TitlePool == << <<"a", "/", "b">>, <<"Q", "?", ":">>, <<"o", "k">> >>
PoolVideo(k) ==
    [video_id |-> <<"v", ToString(k)>>,
     title    |-> TitlePool[((k - 1) % Len(TitlePool)) + 1]]
PoolPlaylist(n) == [k \in 1..n |-> PoolVideo(k)]
PoolFiles == {MakeFilename(PoolVideo(k)) : k \in 1..MaxVideos}

OldText == <<"old">>
OldMtime == 0 - FreshWindow * TicksPerSecond
RecentMtime == 0 - 1
InitialDirs ==
    UNION { [S -> [mtime : {OldMtime, RecentMtime}, content : {OldText}]]
            : S \in SUBSET PoolFiles }

EnglishTranscript == <<"hello", "world">>
OtherTranscript == <<"hola">>

\* main.py:245  TextFormatter().format_transcript: the snippets' text, one per line
RECURSIVE format_transcript(_)
format_transcript(t) ==
    IF Len(t) <= 1 THEN t ELSE <<Head(t), "\n">> \o format_transcript(Tail(t))

\* ---------------------------------------------------------------- retry law
\* A backoff whose exponent is one too high: 2s, 4s, 8s.
BackoffOneAhead(k) == 2 ^ (k + 1)
\* main.py:141  wait_time = 2**attempt
BackoffWait(k) == 2 ^ k

\* The fallback taken one attempt too late.
IsFinalAttemptLate(k, max_retries) == k = max_retries
\* main.py:130  if attempt == max_retries - 1
IsFinalAttempt(k, max_retries) == k = max_retries - 1

\* main.py:303  time.time() - mod_time < 5
IsFresh(mod_time, now) == now - mod_time < FreshWindow * TicksPerSecond

\* -------------------------------------------------------------------- Init
ZeroStats == [total |-> 0, success |-> 0, skipped |-> 0, failed |-> 0]

InitCommon ==
    /\ pc = "init"
    /\ yt_api = "unset"
    /\ videos = <<>>
    /\ stats = ZeroStats
    /\ i = 0
    /\ filename = <<>>
    /\ attempt = 0
    /\ transcript_data = None
    /\ success = FALSE
    /\ clock = 0
    /\ summary = None
    /\ calls = <<>>
    /\ sleeps = <<>>
    /\ existed = FALSE
    /\ pre = files
    /\ outcomes = <<>>
    /\ fetches = 0

Init ==
    /\ PLAYLIST_URL \in GoodUrls \cup BadUrls
    /\ RETRY_ATTEMPTS \in 0..MaxRetries
    /\ RATE_LIMIT_DELAY \in {1, FreshWindow * TicksPerSecond}
    /\ remote \in {None} \cup {Some(PoolPlaylist(n)) : n \in 0..MaxVideos}
    /\ files \in InitialDirs
    /\ InitCommon

\* ----------------------------------------------------------------- actions
\* main.py:266-273 with initialize_api (150-182)
InitializeApi ==
    /\ pc = "init"
    /\ \E USE_PROXY \in BOOLEAN, credentials \in BOOLEAN, proxy_ok \in BOOLEAN :
         yt_api' = IF USE_PROXY /\ (~credentials \/ ~proxy_ok) THEN "none" ELSE "api"
    /\ pc' = IF yt_api' = "none" THEN "aborted" ELSE "fetch_playlist"
    /\ UNCHANGED <<PLAYLIST_URL, RETRY_ATTEMPTS, RATE_LIMIT_DELAY, remote, videos,
                   stats, i, filename, attempt, transcript_data, success, files,
                   clock, summary, calls, sleeps, existed, pre, outcomes, fetches>>

\* main.py:275-281 with fetch_playlist (185-206)
FetchPlaylist ==
    /\ pc = "fetch_playlist"
    /\ IF validate_playlist_url(PLAYLIST_URL) /\ remote # None
       THEN /\ videos' = remote[1]
            /\ stats' = [ZeroStats EXCEPT !.total = Len(remote[1])]
            /\ i' = 1
            /\ pc' = "loop"
       ELSE /\ pc' = "aborted"
            /\ UNCHANGED <<videos, stats, i>>
    /\ UNCHANGED <<PLAYLIST_URL, RETRY_ATTEMPTS, RATE_LIMIT_DELAY, remote, yt_api,
                   filename, attempt, transcript_data, success, files, clock,
                   summary, calls, sleeps, existed, pre, outcomes, fetches>>

\* process_video without its "already processed" check: the existing file is
\* fetched and written again.
ProcessVideoNoSkip ==
    /\ pc = "loop"
    /\ i <= Len(videos)
    /\ filename' = MakeFilename(videos[i])
    /\ existed' = (MakeFilename(videos[i]) \in DOMAIN files)
    /\ success' = FALSE
    /\ pc' = IF RETRY_ATTEMPTS <= 0 THEN "classify" ELSE "english"
    /\ attempt' = 0
    /\ transcript_data' = None
    /\ calls' = <<>>
    /\ sleeps' = <<>>
    /\ pre' = files
    /\ UNCHANGED <<PLAYLIST_URL, RETRY_ATTEMPTS, RATE_LIMIT_DELAY, remote, yt_api,
                   videos, stats, i, files, clock, summary, outcomes, fetches>>

\* main.py:287-290 and process_video 225-239 up to the first fetch; with
\* fetch_transcript_with_retry 122-125, 147 when the attempt range is empty
ProcessVideo ==
    /\ pc = "loop"
    /\ i <= Len(videos)
    /\ LET output_path == MakeFilename(videos[i]) IN
         /\ filename' = output_path
         /\ existed' = (output_path \in DOMAIN files)
         /\ IF output_path \in DOMAIN files
            THEN /\ success' = TRUE
                 /\ pc' = "classify"
            ELSE IF RETRY_ATTEMPTS <= 0
            THEN /\ success' = FALSE
                 /\ pc' = "classify"
            ELSE /\ success' = FALSE
                 /\ pc' = "english"
    /\ attempt' = 0
    /\ transcript_data' = None
    /\ calls' = <<>>
    /\ sleeps' = <<>>
    /\ pre' = files
    /\ UNCHANGED <<PLAYLIST_URL, RETRY_ATTEMPTS, RATE_LIMIT_DELAY, remote, yt_api,
                   videos, stats, i, files, clock, summary, outcomes, fetches>>

\* fetch_transcript_with_retry 125-147: one pass of the loop body
FetchEnglish ==
    /\ pc = "english"
    /\ \E ok \in BOOLEAN :
         /\ calls' = Append(calls, [lang |-> "en", ok |-> ok])
         /\ IF ok
            THEN /\ transcript_data' = Some(EnglishTranscript)
                 /\ pc' = "write"
                 /\ UNCHANGED <<attempt, sleeps, clock, success>>
            ELSE IF IsFinalAttempt(attempt, RETRY_ATTEMPTS)
            THEN /\ pc' = "fallback"
                 /\ UNCHANGED <<attempt, sleeps, clock, success, transcript_data>>
            ELSE /\ sleeps' = Append(sleeps, BackoffWait(attempt))
                 /\ clock' = clock + BackoffWait(attempt) * TicksPerSecond
                 /\ IF attempt + 1 < RETRY_ATTEMPTS
                    THEN /\ attempt' = attempt + 1
                         /\ pc' = "english"
                    ELSE /\ attempt' = 0
                         /\ pc' = "classify"
                 /\ UNCHANGED <<success, transcript_data>>
    /\ fetches' = fetches + 1
    /\ UNCHANGED <<PLAYLIST_URL, RETRY_ATTEMPTS, RATE_LIMIT_DELAY, remote, yt_api,
                   videos, stats, i, filename, files, summary, existed, pre,
                   outcomes>>

\* A fallback that hands back an empty transcript when its fetch raises.
FetchFallbackReturnsEmpty ==
    /\ pc = "fallback"
    /\ \E ok \in BOOLEAN :
         /\ calls' = Append(calls, [lang |-> "any", ok |-> ok])
         /\ transcript_data' = IF ok THEN Some(OtherTranscript) ELSE Some(<<>>)
    /\ pc' = "write"
    /\ attempt' = 0
    /\ fetches' = fetches + 1
    /\ UNCHANGED <<PLAYLIST_URL, RETRY_ATTEMPTS, RATE_LIMIT_DELAY, remote, yt_api,
                   videos, stats, i, filename, success, files, clock, summary,
                   sleeps, existed, pre, outcomes>>

\* fetch_transcript_with_retry 130-138, and process_video 241-242 on None
FetchFallback ==
    /\ pc = "fallback"
    /\ \E ok \in BOOLEAN :
         /\ calls' = Append(calls, [lang |-> "any", ok |-> ok])
         /\ IF ok
            THEN /\ transcript_data' = Some(OtherTranscript)
                 /\ pc' = "write"
            ELSE /\ transcript_data' = None
                 /\ pc' = "classify"
    /\ attempt' = 0
    /\ fetches' = fetches + 1
    /\ UNCHANGED <<PLAYLIST_URL, RETRY_ATTEMPTS, RATE_LIMIT_DELAY, remote, yt_api,
                   videos, stats, i, filename, success, files, clock, summary,
                   sleeps, existed, pre, outcomes>>

\* process_video 244-257: format, open, write, rate-limit sleep; any exception
\* is caught at 255.  open(path, "w") creates the file before write() runs, so
\* a failing write leaves the (empty) file behind.
FormatAndWrite ==
    /\ pc = "write"
    /\ \E outcome \in {"ok", "open_error", "write_error"} :
         /\ files' =
              CASE outcome = "ok" ->
                     [p \in DOMAIN files \cup {filename} |->
                        IF p = filename
                        THEN [mtime |-> clock,
                              content |-> format_transcript(transcript_data[1])]
                        ELSE files[p]]
                [] outcome = "write_error" ->
                     [p \in DOMAIN files \cup {filename} |->
                        IF p = filename
                        THEN [mtime |-> clock, content |-> <<>>]
                        ELSE files[p]]
                [] OTHER -> files
         /\ success' = (outcome = "ok")
         /\ clock' = IF outcome = "ok" THEN clock + RATE_LIMIT_DELAY ELSE clock
    /\ attempt' = 0
    /\ pc' = "classify"
    /\ UNCHANGED <<PLAYLIST_URL, RETRY_ATTEMPTS, RATE_LIMIT_DELAY, remote, yt_api,
                   videos, stats, i, filename, transcript_data, summary, calls,
                   sleeps, existed, pre, outcomes, fetches>>

\* The main loop counting a failure and leaving the loop.
ClassifyOutcomeStopOnFailure ==
    /\ pc = "classify"
    /\ stats' = IF success
                THEN [stats EXCEPT !.success = @ + 1]
                ELSE [stats EXCEPT !.failed = @ + 1]
    /\ outcomes' = Append(outcomes, [idx |-> i, what |-> "any"])
    /\ i' = IF success THEN i + 1 ELSE Len(videos) + 1
    /\ pc' = "loop"
    /\ UNCHANGED <<PLAYLIST_URL, RETRY_ATTEMPTS, RATE_LIMIT_DELAY, remote, yt_api,
                   videos, filename, attempt, transcript_data, success, files,
                   clock, summary, calls, sleeps, existed, pre, fetches>>

\* The main loop without its else branch: a failed video is counted nowhere.
ClassifyOutcomeNoFailedCount ==
    /\ pc = "classify"
    /\ stats' = IF success
                THEN IF IsFresh(files[MakeFilename(videos[i])].mtime, clock)
                     THEN [stats EXCEPT !.success = @ + 1]
                     ELSE [stats EXCEPT !.skipped = @ + 1]
                ELSE stats
    /\ outcomes' = Append(outcomes, [idx |-> i, what |-> "any"])
    /\ i' = i + 1
    /\ pc' = "loop"
    /\ UNCHANGED <<PLAYLIST_URL, RETRY_ATTEMPTS, RATE_LIMIT_DELAY, remote, yt_api,
                   videos, filename, attempt, transcript_data, success, files,
                   clock, summary, calls, sleeps, existed, pre, fetches>>

\* main.py:292-308: the outcome of process_video goes into the statistics
ClassifyOutcome ==
    /\ pc = "classify"
    /\ LET output_path == MakeFilename(videos[i]) IN
         stats' =
           IF success
           THEN IF output_path \in DOMAIN files
                THEN IF IsFresh(files[output_path].mtime, clock)
                     THEN [stats EXCEPT !.success = @ + 1]
                     ELSE [stats EXCEPT !.skipped = @ + 1]
                ELSE stats
           ELSE [stats EXCEPT !.failed = @ + 1]
    /\ outcomes' = Append(outcomes,
                          [idx  |-> i,
                           what |-> IF existed THEN "skipped"
                                    ELSE IF success THEN "created" ELSE "failed"])
    /\ i' = i + 1
    /\ pc' = "loop"
    /\ UNCHANGED <<PLAYLIST_URL, RETRY_ATTEMPTS, RATE_LIMIT_DELAY, remote, yt_api,
                   videos, filename, attempt, transcript_data, success, files,
                   clock, summary, calls, sleeps, existed, pre, fetches>>

\* main.py:310-313 with DownloadStats.print_summary (60-72)
PrintSummary ==
    /\ pc = "loop"
    /\ i > Len(videos)
    /\ summary' = Some(stats)
    /\ pc' = "done"
    /\ UNCHANGED <<PLAYLIST_URL, RETRY_ATTEMPTS, RATE_LIMIT_DELAY, remote, yt_api,
                   videos, stats, i, filename, attempt, transcript_data, success,
                   files, clock, calls, sleeps, existed, pre, outcomes, fetches>>

Next ==
    \/ InitializeApi
    \/ FetchPlaylist
    \/ ProcessVideo
    \/ FetchEnglish
    \/ FetchFallback
    \/ FormatAndWrite
    \/ ClassifyOutcome
    \/ PrintSummary

Spec == Init /\ [][Next]_vars

\* The interpreter runs main() to its end: a step that can be taken is taken.
FairSpec == Spec /\ WF_vars(Next)


\* ------------------------------------------- specification for sanitization
\* One-video playlists over every title of at most MaxTitleLen characters
\* drawn from the nine illegal characters, "_" and a letter.
TitleAlphabet == IllegalChars \cup {"_", "a"}
AllTitles == UNION { [1..n -> TitleAlphabet] : n \in 0..MaxTitleLen }

InitSan ==
    /\ PLAYLIST_URL \in GoodUrls
    /\ RETRY_ATTEMPTS = 2
    /\ RATE_LIMIT_DELAY = 1
    /\ remote \in { Some(<< [video_id |-> <<"v", "1">>, title |-> t] >>) : t \in AllTitles }
    /\ files = <<>>
    /\ InitCommon

SpecSan == InitSan /\ [][Next]_vars

\* ------------------------------------------------------ history predicates
EnglishCalls == {k \in 1..Len(calls) : calls[k].lang = "en"}
FailedEnglish == {k \in EnglishCalls : ~calls[k].ok}
\* every English-preferred attempt and the fallback fetch raised
AllRaised ==
    /\ calls # <<>>
    /\ \A k \in 1..Len(calls) : ~calls[k].ok
    /\ calls[Len(calls)].lang = "any"
Count(what) == Cardinality({k \in 1..Len(outcomes) : outcomes[k].what = what})
\* index of the video that filename, calls, sleeps, existed and pre are about
Current == IF pc \in {"loop", "done"} THEN i - 1 ELSE i

\* ------------------------------------------------------------------ claims

\* C1: a video whose output file exists when process_video is called is
\* skipped: process_video returns success, makes no fetch call, leaves the
\* file as it was, and the main loop counts it under success or skipped,
\* never under failed.
C1_IdempotentSkip ==
    /\ [](existed =>
            /\ pc \in {"classify", "loop", "done"}
            /\ calls = <<>>
            /\ filename \in DOMAIN files
            /\ files = pre
            /\ (pc = "classify" => success))
    /\ [][(pc = "classify" /\ existed) =>
            /\ stats'.failed = stats.failed
            /\ stats'.total = stats.total
            /\ stats'.success + stats'.skipped = stats.success + stats.skipped + 1
            /\ files' = files]_vars

C1_Witness ==
    /\ pc = "loop"
    /\ i > 1
    /\ existed
    /\ stats.success + stats.skipped >= 1

\* C2: when every English-preferred attempt and the fallback fetch raise, the
\* fetch yields None without raising, process_video returns failure, the
\* video is counted once under failed and the loop moves on to the next video.
C2_RetryExhaustion ==
    /\ [](AllRaised => transcript_data = None /\ pc \in {"classify", "loop", "done"})
    /\ [][(pc = "classify" /\ AllRaised) =>
            /\ ~success
            /\ stats' = [stats EXCEPT !.failed = @ + 1]
            /\ i' = i + 1
            /\ pc' = "loop"]_vars

C2_Witness ==
    /\ pc = "english"
    /\ i > 1
    /\ stats.failed >= 1
    /\ Len(outcomes) = i - 1
    /\ outcomes[i - 1].what = "failed"
    /\ fetches = RETRY_ATTEMPTS + 1

C4_Classification ==
    pc = "done" =>
        /\ summary[1].success = Count("created")
        /\ summary[1].skipped = Count("skipped")
        /\ summary[1].failed = Count("failed")

\* C5: with a playlist URL of the wrong shape, or a playlist listing that
\* cannot be obtained, the run aborts before any processing: no video is
\* processed, no fetch is made, no file is written, no summary is printed.
C5_AbortBeforeProcessing ==
    (PLAYLIST_URL \in BadUrls \/ remote = None) =>
        /\ pc \in {"init", "fetch_playlist", "aborted"}
        /\ i = 0
        /\ videos = <<>>
        /\ outcomes = <<>>
        /\ fetches = 0
        /\ files = pre
        /\ summary = None

C5_Witness ==
    /\ pc = "aborted"
    /\ yt_api = "api"
    /\ PLAYLIST_URL \in BadUrls
    /\ remote # None
    /\ Len(remote[1]) > 0

\* C6: the file name built by process_video is "[id] - " followed by the
\* title with each of \ / * ? : " < > | replaced by "_" and every other
\* character kept in place, followed by ".txt"; it holds none of the nine
\* characters, and neither does the name of any file written.
C6_SanitizationTotal ==
    (Current >= 1 /\ pc \notin {"init", "fetch_playlist", "aborted"}) =>
        LET v == videos[Current]
            t == v.title
            p == FilenamePrefix(v.video_id)
        IN  /\ \A k \in 1..Len(filename) : filename[k] \notin IllegalChars
            /\ Len(filename) = Len(p) + Len(t) + Len(FilenameSuffix)
            /\ SubSeq(filename, 1, Len(p)) = p
            /\ SubSeq(filename, Len(p) + Len(t) + 1, Len(filename)) = FilenameSuffix
            /\ \A k \in 1..Len(t) :
                 filename[Len(p) + k] = IF t[k] \in IllegalChars THEN "_" ELSE t[k]
            /\ \A f \in DOMAIN files : \A k \in 1..Len(f) : f[k] \notin IllegalChars

C6_Witness ==
    /\ pc = "done"
    /\ Len(videos[1].title) = MaxTitleLen
    /\ videos[1].title[1] = "\\"
    /\ videos[1].title[MaxTitleLen] = "a"
    /\ filename \in DOMAIN files
    /\ summary[1].success = 1

\* C7: with n >= 1 configured attempts there are at most n English-preferred
\* calls, no call follows a successful one, the unconstrained-language call is
\* made only as call n+1 after n failed English-preferred calls, there are
\* never more than n+1 calls, and None is returned only after that call (also
\* when n = 1).
C7_FallbackOrdering ==
    RETRY_ATTEMPTS >= 1 =>
        /\ Cardinality(EnglishCalls) <= RETRY_ATTEMPTS
        /\ Len(calls) <= RETRY_ATTEMPTS + 1
        /\ \A k \in 1..Len(calls) :
             /\ calls[k].ok => (k = Len(calls) /\ pc \notin {"english", "fallback"})
             /\ calls[k].lang = "any" =>
                  /\ k = RETRY_ATTEMPTS + 1
                  /\ \A j \in 1..(k - 1) : calls[j].lang = "en" /\ ~calls[j].ok
        /\ pc = "fallback" => Cardinality(FailedEnglish) = RETRY_ATTEMPTS
        /\ (pc = "classify" /\ ~existed /\ transcript_data = None) =>
             /\ Len(calls) = RETRY_ATTEMPTS + 1
             /\ calls[Len(calls)].lang = "any"

C7_Witness ==
    /\ RETRY_ATTEMPTS = 1
    /\ pc = "classify"
    /\ transcript_data = None
    /\ calls = << [lang |-> "en", ok |-> FALSE], [lang |-> "any", ok |-> FALSE] >>

\* C8: once the playlist is resolved, a failure while processing a video
\* (fetch, formatting or write) ends as a failure outcome of that video, the
\* videos are processed one by one in playlist order, all of them, and the
\* summary is eventually printed.
C8_FailuresNeverAbort ==
    /\ [](/\ \A k \in 1..Len(outcomes) : outcomes[k].idx = k
          /\ pc = "done" => (Len(outcomes) = Len(videos) /\ summary # None)
          /\ (pc = "classify" /\ ~existed /\ (calls = <<>> \/ filename \notin DOMAIN files
                                              \/ files[filename].content = <<>>))
               => ~success)
    /\ (pc = "loop") ~> (pc = "done")

C8_Witness ==
    /\ pc = "done"
    /\ Len(outcomes) >= 2
    /\ outcomes[1].what = "failed"
    /\ filename \in DOMAIN files
    /\ ~existed

\* C9: total is set once, to the playlist length; each processed video adds
\* one to exactly one of success, skipped, failed; after k videos the three
\* sum to k, and to total when the summary is printed.
C9_StatsAccounting ==
    /\ [](/\ pc \notin {"init", "fetch_playlist", "aborted"} => stats.total = Len(videos)
          /\ stats.success + stats.skipped + stats.failed = Len(outcomes)
          /\ pc \in {"loop", "done"} => Len(outcomes) = i - 1
          /\ pc = "done" =>
               /\ summary = Some(stats)
               /\ stats.success + stats.skipped + stats.failed = stats.total)
    /\ [][/\ pc # "fetch_playlist" => stats'.total = stats.total
          /\ pc \notin {"fetch_playlist", "classify"} => stats' = stats
          /\ pc = "classify" =>
               \/ stats' = [stats EXCEPT !.success = @ + 1]
               \/ stats' = [stats EXCEPT !.skipped = @ + 1]
               \/ stats' = [stats EXCEPT !.failed = @ + 1]]_vars

C9_Witness ==
    /\ pc = "done"
    /\ stats.total = MaxVideos
    /\ stats.failed >= 1
    /\ stats.success + stats.skipped >= 1

\* C10: whenever process_video returns failure, no output file of that video
\* exists afterwards.
C10_NoMarkerAfterFailure ==
    (pc = "classify" /\ ~success) => filename \notin DOMAIN files

====
